---- MODULE Spec2Model ----
(***************************************************************************)
(* Model of src/modules/functions/vertical_bricklayers.py: process_gcode   *)
(* (wall extraction, pairing and zigzag synthesis, splicing, in-place      *)
(* write) with its helpers parse_gcode, calculate_wall_length and          *)
(* evenly_distribute_points.                                               *)
(*                                                                         *)
(* A G-code line is a record [k, x, y, e, n]; k names the shape of its     *)
(* text, and the string tests of the code are evaluated on that text:      *)
(*   "hdr"    "; generated by slicer"      "m73"   "M73 P10 R5"            *)
(*   "layerN" ";LAYER:<n>"                 "m106"  "M106 S255"             *)
(*   "layerX" ";LAYER:"  (no digits)       "g92"   "G92 E0"                *)
(*   "lchg"   ";LAYER_CHANGE"              "ext"   "G1 X<x> Y<y> E<e>"     *)
(*   "text"   ";TYPE:External perimeter"   "trv"   "G1 X<x> Y<y> F9000"    *)
(*   "tout"   ";TYPE:Outer wall"           "bad"   "G1 XABC Y1.0 E1.0"     *)
(*   "tper"   ";TYPE:Perimeter"            "tinn"  ";TYPE:Inner wall"      *)
(*   "toth"   ";TYPE:Solid infill"                                         *)
(* Numbers are fixed point: coordinates and lengths in 1e-4 mm, extrusion  *)
(* in 1e-6 mm; the code's doubles are approximated by integer arithmetic   *)
(* rounded to the nearest unit.                                            *)
(*                                                                         *)
(* Spec is process_gcode. SpecResample is one call of                      *)
(* evenly_distribute_points, whose frame is edp, stepped one iteration of  *)
(* its for loop at a time; process_gcode calls the same function as the    *)
(* operator evenly_distribute_points.                                      *)
(*                                                                         *)
(* SpecZShift is one call of a Z-shift variant, ProcessGcodeBBL of         *)
(* src/modules/process_bbl_gcode.py or bricklayers_x1c of                  *)
(* src/modules/modification/bricklayers.py, whose frame is zs, stepped one *)
(* input line at a time. Its inputs have the further shapes                *)
(*   "g1z"     "G1 Z<n>"  (n in 1e-4 mm)   "m73l"  "M73 L<n>"              *)
(*   "total"   "; total layer number: <n>"                                 *)
(*   "lheight" "; layer_height = <n>"                                      *)
(*   "finn"    "; FEATURE: Inner wall"                                     *)
(*   "fout"    "; FEATURE: Outer wall"     (the line ends after "wall")    *)
(*   "fouts"   "; FEATURE: Outer wall "    (a space follows "wall")        *)
(*   "foth"    "; FEATURE: Sparse infill"                                  *)
(*   "flow"    "; Feature: Sparse infill"                                  *)
(* and its outputs the shapes                                              *)
(*   "zshift"  "G1 Z<x> ; Shifted Z for block #<n>"   (x in 1e-3 mm)       *)
(*   "zreset"  "G1 Z<x> ; Reset Z for block #<n>"                          *)
(*   "efirst"  "G1 X<x> Y<y> E<e> ; Adjusted E for first layer, block #<n>"*)
(*   "elast"   "G1 X<x> Y<y> E<e> ; Adjusted E for last layer, block #<n>" *)
(*   "emult"   "G1 X<x> Y<y> E<e> ; Adjusted E for extrusionMultiplier,    *)
(*              block #<n>"                           (e in 1e-5 mm)       *)
(***************************************************************************)
EXTENDS Integers, Sequences, FiniteSets, TLC

VARIABLES lines, pc, i, current_layer, current_wall, current_wall_type,
          inside_perimeter_block, perimeter_block_count, last_xy_move,
          layer_walls, zigzag_segments, output_gcode, file, file_written,
          raised, ret, zigzag_length, edp, zs

vars == <<lines, pc, i, current_layer, current_wall, current_wall_type,
          inside_perimeter_block, perimeter_block_count, last_xy_move,
          layer_walls, zigzag_segments, output_gcode, file, file_written,
          raised, ret, zigzag_length, edp, zs>>

(* ---------------------------- bounds ----------------------------------- *)
\* longest input built from the whole line alphabet
MaxLen == 3
\* longest input built from the reduced alphabet MidAlphabet
MaxMid == 5
\* most walls of one layer in the structured inputs
MaxWalls == 3
\* most lines after the type marker in the inputs of one internal region
MaxBlock == 4

(* ------------------------- line classifier ----------------------------- *)
NoE == -1

L(k) == [k |-> k, x |-> 0, y |-> 0, e |-> 0, n |-> 0]
LayerN(n) == [k |-> "layerN", x |-> 0, y |-> 0, e |-> 0, n |-> n]
Ext(x, y, e) == [k |-> "ext", x |-> x, y |-> y, e |-> e, n |-> 0]
Trv(x, y) == [k |-> "trv", x |-> x, y |-> y, e |-> 0, n |-> 0]

\* ';LAYER:' in line
HasLayerColon(line) == line.k \in {"layerN", "layerX"}
\* re.search(r';LAYER:(\d+)', line)
LayerMatch(line) == line.k = "layerN"
\* ';LAYER_CHANGE' in line
HasLayerChange(line) == line.k = "lchg"
\* ";TYPE:External perimeter" in line
HasTypeExternalPerimeter(line) == line.k = "text"
\* ";TYPE:External perimeter" in line or ";TYPE:Outer wall" in line
IsExternalMarker(line) == line.k \in {"text", "tout"}
\* ";TYPE:Perimeter" in line
HasTypePerimeter(line) == line.k = "tper"
\* ";TYPE:Perimeter" in line or ";TYPE:Inner wall" in line
IsInternalMarker(line) == line.k \in {"tper", "tinn"}
\* ";TYPE:" in line
HasType(line) == line.k \in {"text", "tout", "tper", "tinn", "toth"}
\* line.startswith("G1") and "X" in line and "Y" in line
IsG1XY(line) == line.k \in {"ext", "trv", "bad"}
\* line.startswith("G1") and "X" in line and "Y" in line and "E" in line
IsExtrudeShape(line) == line.k \in {"ext", "bad"}
\* line.startswith("G1") and "X" in line and "Y" in line and "F9000" in line
IsF9000Move(line) == line.k = "trv"
\* line.startswith('M')
StartsWithM(line) == line.k \in {"m73", "m106"}
\* variant: no line is taken for a progress report
StartsWithM73Never(line) == FALSE

\* line.startswith('M73 ')
StartsWithM73(line) == line.k = "m73"
\* line.startswith('G1 ') and ' E' not in line
IsTravelNoE(line) == line.k = "trv"
\* line.startswith(';')
IsComment(line) ==
    line.k \in {"hdr", "layerN", "layerX", "lchg", "text", "tout", "tper", "tinn", "toth"}
\* re.search(r'G1 X([-+]?\d*\.?\d+) Y([-+]?\d*\.?\d+)', line)
XYMatch(line) == line.k \in {"ext", "trv"}

(* ------------------------------ moves ---------------------------------- *)
\* GCodeMove; obj is the identity of the Python object (0: no object)
GCodeMove(line, x, y, e, is_travel, obj) ==
    [line |-> line, x |-> x, y |-> y, e |-> e, is_travel |-> is_travel, obj |-> obj]

None == GCodeMove(L("none"), 0, 0, NoE, FALSE, 0)

\* variant: a Move is built also when X or Y has no number
parse_gcodeUnchecked(line, idx) ==
    GCodeMove(line, line.x, line.y, IF line.k = "trv" THEN NoE ELSE line.e,
              line.k = "trv", 2 * idx)

\* parse_gcode(line) for the line at index idx; None when X or Y has no number
parse_gcode(line, idx) ==
    IF line.k = "ext" THEN GCodeMove(line, line.x, line.y, line.e, FALSE, 2 * idx)
    ELSE IF line.k = "trv" THEN GCodeMove(line, line.x, line.y, NoE, TRUE, 2 * idx)
    ELSE None

\* the GCodeMove built at the end of each extraction iteration
TrackXYMove(line, idx) ==
    GCodeMove(line, line.x, line.y, IF line.k = "ext" THEN line.e ELSE NoE,
              line.k # "ext" /\ line.k # "bad", 2 * idx + 1)

(* --------------------------- extraction -------------------------------- *)
\* layer_walls.setdefault(layer, []).append(wall)
AddWall(lw, layer, wall) ==
    IF layer \in DOMAIN lw THEN [lw EXCEPT ![layer] = Append(@, wall)]
    ELSE [l \in DOMAIN lw \cup {layer} |-> IF l = layer THEN <<wall>> ELSE lw[l]]

\* the layer tracking shared by the extraction and splice loops
NextLayer(line, layer) ==
    IF HasLayerColon(line) THEN (IF LayerMatch(line) THEN line.n ELSE layer)
    ELSE IF HasLayerChange(line) THEN layer + 1
    ELSE layer

\* minimum length (exclusive) of a wall saved at a ';TYPE:' marker
TypeChangeMinLen == 5

\* the wall-type a ';TYPE:' marker selects
MarkerType(line) ==
    IF IsExternalMarker(line) THEN "external"
    ELSE IF IsInternalMarker(line) THEN "internal"
    ELSE "none"

\* whether a wall open at a ';TYPE:' marker is saved
SavedAtMarker(wall) == Len(wall) > TypeChangeMinLen

\* the wall a new perimeter block starts with
StartWall(last) == IF last # None /\ last.is_travel THEN <<last>> ELSE <<>>

\* variant: extruding lines are grouped whatever the wall type
GroupingAnyType(type, line) == IsExtrudeShape(line)

\* whether a line is grouped into a perimeter block
Grouping(type, line) == type = "internal" /\ IsExtrudeShape(line)

\* one iteration of the extraction loop, on lines[i]
ExtractLine ==
    /\ pc = "extract"
    /\ i <= Len(lines)
    /\ LET line == lines[i]
           layer == NextLayer(line, current_layer)
           open == current_wall # <<>> /\ current_wall_type = "internal"
                   /\ inside_perimeter_block
           marker == HasType(line)
           walls1 == IF marker /\ open /\ SavedAtMarker(current_wall)
                     THEN AddWall(layer_walls, layer, current_wall)
                     ELSE layer_walls
           type1 == IF marker THEN MarkerType(line) ELSE current_wall_type
           inside1 == IF marker THEN FALSE ELSE inside_perimeter_block
           wall1 == IF marker THEN <<>> ELSE current_wall
           grouping == Grouping(type1, line)
           gcode_point == parse_gcode(line, i)
           started == IF inside1 THEN wall1 ELSE StartWall(last_xy_move)
           ending == /\ ~grouping
                     /\ inside1
                     /\ (StartsWithM(line) \/ IsTravelNoE(line) \/ IsComment(line))
                     /\ ~StartsWithM73(line)
                     /\ wall1 # <<>>
                     /\ type1 = "internal"
       IN  /\ current_layer' = layer
           /\ current_wall_type' = IF ending /\ HasType(line) THEN MarkerType(line)
                                   ELSE type1
           /\ perimeter_block_count' = IF grouping /\ ~inside1
                                       THEN perimeter_block_count + 1
                                       ELSE perimeter_block_count
           /\ inside_perimeter_block' = IF grouping THEN TRUE
                                        ELSE IF ending THEN FALSE ELSE inside1
           /\ current_wall' = IF grouping
                              THEN (IF gcode_point # None
                                    THEN Append(started, gcode_point) ELSE started)
                              ELSE IF ending THEN <<>> ELSE wall1
           /\ layer_walls' = IF ending THEN AddWall(walls1, layer, wall1) ELSE walls1
           /\ last_xy_move' = IF IsG1XY(line) /\ XYMatch(line)
                              THEN TrackXYMove(line, i) ELSE last_xy_move
    /\ i' = i + 1
    /\ UNCHANGED <<zs, edp, lines, pc, zigzag_segments, output_gcode, file, file_written,
                   raised, ret, zigzag_length>>

\* variant: a wall still open after the last line is not saved
SavedAtEndNever(wall, type, inside) == FALSE

\* whether the wall still open after the last line is saved
SavedAtEnd(wall, type, inside) == wall # <<>> /\ type = "internal" /\ inside

\* after the loop: save any remaining wall
ExtractEnd ==
    /\ pc = "extract"
    /\ i > Len(lines)
    /\ layer_walls' = IF SavedAtEnd(current_wall, current_wall_type,
                                    inside_perimeter_block)
                      THEN AddWall(layer_walls, current_layer, current_wall)
                      ELSE layer_walls
    /\ pc' = "synthesize"
    /\ UNCHANGED <<zs, edp, lines, i, current_layer, current_wall, current_wall_type,
                   inside_perimeter_block, perimeter_block_count, last_xy_move,
                   zigzag_segments, output_gcode, file, file_written, raised, ret,
                   zigzag_length>>

(* ---------------------------- geometry --------------------------------- *)
\* a / b rounded to the nearest integer (b > 0)
RDiv(a, b) == IF a >= 0 THEN (2 * a + b) \div (2 * b) ELSE -((2 * (-a) + b) \div (2 * b))

RECURSIVE SqrtIter(_, _, _)
SqrtIter(n, lo, hi) ==
    IF lo >= hi THEN lo
    ELSE LET mid == (lo + hi + 1) \div 2
         IN  IF mid * mid <= n THEN SqrtIter(n, mid, hi) ELSE SqrtIter(n, lo, mid - 1)

\* np.sqrt, to the nearest unit
Sqrt(n) == LET r == SqrtIter(n, 0, 46340) IN IF n - r * r > r THEN r + 1 ELSE r

\* Point.distance between the points of two moves
Distance(p, q) == Sqrt((p.x - q.x) * (p.x - q.x) + (p.y - q.y) * (p.y - q.y))

RECURSIVE calculate_wall_length(_)
calculate_wall_length(wall) ==
    IF Len(wall) < 2 THEN 0
    ELSE Distance(wall[1], wall[2]) + calculate_wall_length(Tail(wall))

\* ratio = 0.0 / 0.0 on numpy doubles: not a number
NaN == -2147483647

\* the point interpolated with ratio NaN on the segment wall[k] -> wall[k+1]
NaNPoint(wall, k) ==
    GCodeMove(L("resampled"), NaN, NaN,
              IF wall[k].e # NoE /\ wall[k + 1].e # NoE THEN NaN ELSE NoE, FALSE, 0)

\* the while loop of evenly_distribute_points on the segment p1 -> wall[k+1];
\* st = [result, current_distance, target_distance]
RECURSIVE InsertPoints(_, _, _, _, _)
InsertPoints(wall, k, p1, st, segment_length) ==
    LET p2 == wall[k + 1]
        segment_dist == Distance(p1, p2)
    IN  IF st.current_distance + segment_dist >= st.target_distance
        THEN IF segment_dist = 0
             THEN \* the new point is NaN, and so is the next segment_dist:
                  \* the loop ends on NaN >= target_distance
                  [result |-> Append(st.result, NaNPoint(wall, k)),
                   current_distance |-> 0,
                   target_distance |-> segment_length]
             ELSE
             LET num == st.target_distance - st.current_distance
                 new_x == p1.x + RDiv(num * (p2.x - p1.x), segment_dist)
                 new_y == p1.y + RDiv(num * (p2.y - p1.y), segment_dist)
                 new_e == IF wall[k].e # NoE /\ wall[k + 1].e # NoE
                          THEN wall[k].e + RDiv(num * (wall[k + 1].e - wall[k].e), segment_dist)
                          ELSE NoE
                 new_point == GCodeMove(L("resampled"), new_x, new_y, new_e, FALSE, 0)
             IN  InsertPoints(wall, k, new_point,
                              [result |-> Append(st.result, new_point),
                               current_distance |-> 0,
                               target_distance |-> segment_length],
                              segment_length)
        ELSE st

\* one iteration of the for loop of evenly_distribute_points, on segment k
SegmentStep(wall, k, st, segment_length) ==
    LET segment_dist == Distance(wall[k], wall[k + 1])
    IN  IF st.current_distance + segment_dist >= st.target_distance
        THEN InsertPoints(wall, k, wall[k], st, segment_length)
        ELSE [st EXCEPT !.current_distance = @ + segment_dist]

\* the for loop of evenly_distribute_points, from segment k on
RECURSIVE DistributeFrom(_, _, _, _)
DistributeFrom(wall, k, st, segment_length) ==
    IF k > Len(wall) - 1 THEN st
    ELSE DistributeFrom(wall, k + 1, SegmentStep(wall, k, st, segment_length),
                        segment_length)

\* segment_length = total_length / (num_points - 1)
SegmentLength(wall, num_points) == RDiv(calculate_wall_length(wall), num_points - 1)

\* "Always include last point": if len(result) < num_points
WithLast(result, wall, num_points) ==
    IF Len(result) < num_points THEN Append(result, wall[Len(wall)]) ELSE result

evenly_distribute_points(wall, num_points) ==
    IF Len(wall) < 2 \/ num_points < 2 THEN wall
    ELSE LET segment_length == SegmentLength(wall, num_points)
             st == DistributeFrom(wall, 1,
                                  [result |-> <<wall[1]>>, current_distance |-> 0,
                                   target_distance |-> segment_length],
                                  segment_length)
         IN  WithLast(st.result, wall, num_points)

(* ------------------- evenly_distribute_points, stepped ------------------ *)
\* the frame of a call: arguments, locals and, in "on", for every point of
\* result the segment (1-based) it was interpolated on (0: a point of wall)
Frame(wall, num_points) ==
    [wall |-> wall, num_points |-> num_points, i |-> 0, result |-> <<>>,
     current_distance |-> 0, target_distance |-> 0, on |-> <<>>]

NoCall == Frame(<<>>, 0)

\* if len(wall) < 2 or num_points < 2: return wall
ResampleReturnWall ==
    /\ pc = "edp_call"
    /\ Len(edp.wall) < 2 \/ edp.num_points < 2
    /\ edp' = [edp EXCEPT !.result = edp.wall, !.on = [m \in 1..Len(edp.wall) |-> 0]]
    /\ pc' = "edp_done"
    /\ UNCHANGED <<zs, lines, i, current_layer, current_wall, current_wall_type,
                   inside_perimeter_block, perimeter_block_count, last_xy_move,
                   layer_walls, zigzag_segments, output_gcode, file, file_written,
                   raised, ret, zigzag_length>>

\* result = [wall[0]]; current_distance = 0; target_distance = segment_length
ResampleBegin ==
    /\ pc = "edp_call"
    /\ ~(Len(edp.wall) < 2 \/ edp.num_points < 2)
    /\ edp' = [edp EXCEPT !.result = <<edp.wall[1]>>, !.on = <<0>>,
                          !.current_distance = 0,
                          !.target_distance = SegmentLength(edp.wall, edp.num_points)]
    /\ pc' = "edp_loop"
    /\ UNCHANGED <<zs, lines, i, current_layer, current_wall, current_wall_type,
                   inside_perimeter_block, perimeter_block_count, last_xy_move,
                   layer_walls, zigzag_segments, output_gcode, file, file_written,
                   raised, ret, zigzag_length>>

\* one iteration of for i in range(len(wall) - 1)
ResampleSegment ==
    /\ pc = "edp_loop"
    /\ edp.i < Len(edp.wall) - 1
    /\ LET st == SegmentStep(edp.wall, edp.i + 1,
                             [result |-> edp.result,
                              current_distance |-> edp.current_distance,
                              target_distance |-> edp.target_distance],
                             SegmentLength(edp.wall, edp.num_points))
       IN  edp' = [edp EXCEPT !.result = st.result,
                              !.current_distance = st.current_distance,
                              !.target_distance = st.target_distance,
                              !.on = @ \o [m \in 1..(Len(st.result) - Len(edp.result))
                                              |-> edp.i + 1],
                              !.i = @ + 1]
    /\ UNCHANGED <<zs, lines, pc, i, current_layer, current_wall, current_wall_type,
                   inside_perimeter_block, perimeter_block_count, last_xy_move,
                   layer_walls, zigzag_segments, output_gcode, file, file_written,
                   raised, ret, zigzag_length>>

\* after the loop: "Always include last point", return result
ResampleEnd ==
    /\ pc = "edp_loop"
    /\ edp.i >= Len(edp.wall) - 1
    /\ LET result == WithLast(edp.result, edp.wall, edp.num_points)
       IN  edp' = [edp EXCEPT !.result = result,
                              !.on = @ \o [m \in 1..(Len(result) - Len(edp.result)) |-> 0]]
    /\ pc' = "edp_done"
    /\ UNCHANGED <<zs, lines, i, current_layer, current_wall, current_wall_type,
                   inside_perimeter_block, perimeter_block_count, last_xy_move,
                   layer_walls, zigzag_segments, output_gcode, file, file_written,
                   raised, ret, zigzag_length>>

(* ---------------------------- synthesis -------------------------------- *)
\* least number of resampling points of a zigzagged pair
MinSegments == 20
\* extrusion_rate = 0.033, in thousandths
ExtrusionRate == 33
\* walls shorter than this are not zigzagged
MinZigzagLen == 3

Min(a, b) == IF a < b THEN a ELSE b
Max(a, b) == IF a > b THEN a ELSE b

\* f"{v:.3f}": 1e-4 mm to 1e-3 mm;  f"{v:.5f}": 1e-6 mm to 1e-5 mm
Fmt3(v) == RDiv(v, 10)
Fmt5(v) == RDiv(v, 10)

\* distance * extrusion_rate, in 1e-6 mm
Extrusion(distance) == RDiv(distance * ExtrusionRate, 10)

\* f"G1 X{x:.3f} Y{y:.3f} F9000 ; ..." and f"G1 X{x:.3f} Y{y:.3f} E{e:.5f} ; ... {j}"
TravelLine(k, p) == [k |-> k, x |-> Fmt3(p.x), y |-> Fmt3(p.y), e |-> 0, n |-> 0]
ExtrudeLine(k, p, e, j) == [k |-> k, x |-> Fmt3(p.x), y |-> Fmt3(p.y), e |-> Fmt5(e), n |-> j]

\* for move in wall: original_lines.append(move.line)
OriginalLines(wall) == [m \in 1..Len(wall) |-> wall[m].line]

\* num_segments = max(20, int(avg_wall_length / zlen))
NumSegments(wall1, wall2, zlen) ==
    Max(MinSegments,
        (calculate_wall_length(wall1) + calculate_wall_length(wall2)) \div (2 * zlen))

\* wall_points[idx] for a 0-based idx, falling back to the last point
PointOrLast(points, idx) ==
    IF idx < Len(points) THEN points[idx + 1] ELSE points[Len(points)]

\* the E value of the cross-connect move of a zigzag step
CrossE(last_e, distance) == Extrusion(distance)

\* the E value of the connector move of a zigzag step
ConnectorE(last_e, distance) == last_e + Extrusion(distance)

\* variant: the zigzag starts on the second wall
ZigzagStartOnWall2(wall1_points, wall2_points) == wall2_points[1]

\* the first point a zigzag block travels to
ZigzagStart(wall1_points, wall2_points) == wall1_points[1]

\* the zigzag loop from step j (0-based) on; m = min(len, len, num_segments)
RECURSIVE ZigzagLoop(_, _, _, _, _)
ZigzagLoop(wall1_points, wall2_points, j, m, last_e) ==
    IF j > m - 2 THEN <<>>
    ELSE LET start_point == IF j % 2 = 0 THEN wall1_points[j + 1] ELSE wall2_points[j + 1]
             end_point == IF j % 2 = 0 THEN wall2_points[j + 1] ELSE wall1_points[j + 1]
             e1 == CrossE(last_e, Distance(start_point, end_point))
             seg == ExtrudeLine("zseg", end_point, e1, j)
             next_point == IF (j + 1) % 2 = 0 THEN PointOrLast(wall1_points, j + 1)
                           ELSE PointOrLast(wall2_points, j + 1)
             e2 == ConnectorE(e1, Distance(end_point, next_point))
             conn == ExtrudeLine("zconn", next_point, e2, j)
         IN  IF j < m - 2
             THEN <<seg, conn>> \o ZigzagLoop(wall1_points, wall2_points, j + 1, m, e2)
             ELSE <<seg>> \o ZigzagLoop(wall1_points, wall2_points, j + 1, m, e1)

\* variant: the loop runs two steps past the shorter list
ZigzagStepsLong(wall1_points, wall2_points, num_segments) ==
    Min(Min(Len(wall1_points), Len(wall2_points)), num_segments) + 2

\* variant: the loop stops one step early
ZigzagStepsShort(wall1_points, wall2_points, num_segments) ==
    Min(Min(Len(wall1_points), Len(wall2_points)), num_segments) - 1

\* min(len(wall1_points), len(wall2_points), num_segments)
ZigzagSteps(wall1_points, wall2_points, num_segments) ==
    Min(Min(Len(wall1_points), Len(wall2_points)), num_segments)

\* the subscripts the zigzag loop applies to the resampled lists: of = 1 for
\* wall1_points, 2 for wall2_points; idx the 0-based subscript (-1: the last
\* point); len the length of the list
ZigzagReads(wall1_points, wall2_points, num_segments) ==
    LET m == ZigzagSteps(wall1_points, wall2_points, num_segments)
        len(of) == IF of = 1 THEN Len(wall1_points) ELSE Len(wall2_points)
        Read(of, idx) == [of |-> of, idx |-> idx, len |-> len(of)]
        next(j) == IF (j + 1) % 2 = 0 THEN 1 ELSE 2
    IN  {Read(of, j) : of \in {1, 2}, j \in 0..(m - 2)}
        \cup {Read(next(j), IF j + 1 < len(next(j)) THEN j + 1 ELSE -1) :
                  j \in {jj \in 0..(m - 2) : jj < m - 2}}

\* whether a subscript raises IndexError
OutOfRange(read) == ~(-read.len <= read.idx /\ read.idx < read.len)

\* the zigzag block of a pair of walls resampled to num_segments points
ZigzagOf(wall1, wall2, num_segments) ==
    LET wall1_points == evenly_distribute_points(wall1, num_segments)
        wall2_points == evenly_distribute_points(wall2, num_segments)
        first == ZigzagStart(wall1_points, wall2_points)
        last_e == IF wall1_points[1].e # NoE THEN wall1_points[1].e
                  ELSE IF wall2_points[1].e # NoE THEN wall2_points[1].e
                  ELSE 1500000
        m == ZigzagSteps(wall1_points, wall2_points, num_segments)
    IN  <<TravelLine("zstart", first)>>
        \o ZigzagLoop(wall1_points, wall2_points, 0, m, last_e)
        \o <<TravelLine("zfinal", wall2[Len(wall2)])>>

\* the zigzag block of a pair of walls with at least 3 moves each
Zigzag(wall1, wall2, zlen) == ZigzagOf(wall1, wall2, NumSegments(wall1, wall2, zlen))

\* variant: a pair is passed through only when both walls are short
TooShortBoth(wall1, wall2) == Len(wall1) < MinZigzagLen /\ Len(wall2) < MinZigzagLen

\* whether a pair is passed through instead of zigzagged
TooShort(wall1, wall2) == Len(wall1) < MinZigzagLen \/ Len(wall2) < MinZigzagLen

\* the block of the pair (wall1, wall2)
PairBlock(wall1, wall2, zlen) ==
    IF TooShort(wall1, wall2) THEN OriginalLines(wall1) \o OriginalLines(wall2)
    ELSE Zigzag(wall1, wall2, zlen)

\* variant: every layer pairs from its first wall
StartIndexZero(layer) == 0

\* start_index = 1 if layer % 2 == 1 else 0
StartIndex(layer) == IF layer % 2 = 1 THEN 1 ELSE 0

\* for i in range(start_index, len(walls), 2), from the 0-based index w on
RECURSIVE PairWalls(_, _, _)
PairWalls(walls, w, zlen) ==
    IF w >= Len(walls) THEN <<>>
    ELSE IF w + 1 < Len(walls)
         THEN <<PairBlock(walls[w + 1], walls[w + 2], zlen)>>
              \o PairWalls(walls, w + 2, zlen)
         ELSE <<OriginalLines(walls[w + 1])>>

\* variant: the first wall of an odd layer is not emitted
SynthLayerNoFirst(layer, walls, zlen) == PairWalls(walls, StartIndex(layer), zlen)

\* zigzag_segments[layer] for the walls of one layer
SynthLayer(layer, walls, zlen) ==
    (IF layer % 2 = 1 /\ Len(walls) > 0 THEN <<OriginalLines(walls[1])>> ELSE <<>>)
    \o PairWalls(walls, StartIndex(layer), zlen)

\* whether the zigzag loop of some pair of the layers raises IndexError
SynthRaises(walls_of, zlen) ==
    \E layer \in DOMAIN walls_of :
        \E w \in 0..(Len(walls_of[layer]) - 2) :
            LET wall1 == walls_of[layer][w + 1]
                wall2 == walls_of[layer][w + 2]
                n == NumSegments(wall1, wall2, zlen)
            IN  /\ w % 2 = StartIndex(layer)
                /\ ~TooShort(wall1, wall2)
                /\ \E read \in ZigzagReads(evenly_distribute_points(wall1, n),
                                           evenly_distribute_points(wall2, n), n) :
                       OutOfRange(read)

\* "Create zigzags for each layer": zigzag_segments from layer_walls
\* an IndexError of the zigzag loop is caught by except Exception
Synthesize ==
    /\ pc = "synthesize"
    /\ IF SynthRaises(layer_walls, zigzag_length)
       THEN /\ raised' = TRUE
            /\ ret' = "input_file"
            /\ pc' = "done"
            /\ UNCHANGED zigzag_segments
       ELSE /\ zigzag_segments' = [layer \in DOMAIN layer_walls |->
                                     SynthLayer(layer, layer_walls[layer], zigzag_length)]
            /\ pc' = "splice_start"
            /\ UNCHANGED <<raised, ret>>
    /\ UNCHANGED <<zs, edp, lines, i, current_layer, current_wall, current_wall_type,
                   inside_perimeter_block, perimeter_block_count, last_xy_move,
                   layer_walls, output_gcode, file, file_written, zigzag_length>>

(* ------------------------------ splice --------------------------------- *)
\* an output line: its text, the index of the input line it was copied from
\* by the splice loop (0 for an inserted line) and, for a line of an inserted
\* block, <<layer, index>> of that block
Copied(idx) == [src |-> idx, txt |-> lines[idx], blk |-> <<>>]
Inserted(line, layer, b) == [src |-> 0, txt |-> line, blk |-> <<layer, b>>]

\* the text of the output lines
OutputText == [k \in 1..Len(output_gcode) |-> output_gcode[k].txt]

\* variant: the splice loop runs also when no zigzag was created
NoZigzagsIgnored(segments) == FALSE

\* layers_with_zigzags == 0
NoZigzags(segments) == DOMAIN segments = {}

\* lines[k] for a Python index k (negative: from the end)
PyLine(k) == lines[(IF k < 0 THEN k + Len(lines) ELSE k) + 1]

\* the search for next_travel_move from Python index j on: TRUE when
\* lines[k], k in range(j-5, j), raises IndexError
RECURSIVE LookaheadRaises(_)
LookaheadRaises(j) ==
    IF j >= Len(lines) THEN FALSE
    ELSE IF IsF9000Move(PyLine(j))
         THEN IF HasTypeExternalPerimeter(PyLine(j - 1)) THEN FALSE
              ELSE IF j - 5 < -Len(lines) THEN TRUE
              ELSE IF \E k \in (j - 5)..(j - 1) : HasTypeExternalPerimeter(PyLine(k))
                   THEN FALSE
                   ELSE LookaheadRaises(j + 1)
         ELSE IF HasTypeExternalPerimeter(PyLine(j)) THEN FALSE
              ELSE LookaheadRaises(j + 1)

\* whether lines[t] ends the skipped region
EndsSkip(line) ==
    HasTypeExternalPerimeter(line) \/ (HasType(line) /\ ~HasTypePerimeter(line))

\* the index the splice loop continues at after the marker at index t
SkipTo(t) ==
    IF \E u \in (t + 1)..Len(lines) : EndsSkip(lines[u])
    THEN CHOOSE u \in (t + 1)..Len(lines) :
            EndsSkip(lines[u]) /\ \A v \in (t + 1)..(u - 1) : ~EndsSkip(lines[v])
    ELSE Len(lines) + 1

\* variant: the sentinel pairs are nested
RECURSIVE WrappedNested(_, _, _)
WrappedNested(layer, blocks, b) ==
    IF b > Len(blocks) THEN <<>>
    ELSE <<Inserted(L("zbegin"), layer, b)>>
         \o [m \in 1..Len(blocks[b]) |-> Inserted(blocks[b][m], layer, b)]
         \o WrappedNested(layer, blocks, b + 1)
         \o <<Inserted(L("zend"), layer, b)>>

\* the blocks b.. of a layer, each between its sentinel lines
RECURSIVE Wrapped(_, _, _)
Wrapped(layer, blocks, b) ==
    IF b > Len(blocks) THEN <<>>
    ELSE <<Inserted(L("zbegin"), layer, b)>>
         \o [m \in 1..Len(blocks[b]) |-> Inserted(blocks[b][m], layer, b)]
         \o <<Inserted(L("zend"), layer, b)>>
         \o Wrapped(layer, blocks, b + 1)

\* whether the marker at the current line is replaced by blocks
HasBlocks(layer) == layer \in DOMAIN zigzag_segments /\ zigzag_segments[layer] # <<>>

\* whether the splice loop copies a ';LAYER:' line
CopiesLayerLine(line) == LayerMatch(line)

\* lines 443-456: no zigzags: the output is the input
SpliceStart ==
    /\ pc = "splice_start"
    /\ IF NoZigzags(zigzag_segments)
       THEN /\ output_gcode' = [k \in 1..Len(lines) |-> Copied(k)]
            /\ pc' = "write"
            /\ UNCHANGED i
       ELSE /\ output_gcode' = <<>>
            /\ pc' = "splice"
            /\ i' = 1
    /\ current_layer' = 0
    /\ UNCHANGED <<zs, edp, lines, current_wall, current_wall_type, inside_perimeter_block,
                   perimeter_block_count, last_xy_move, layer_walls, zigzag_segments,
                   file, file_written, raised, ret, zigzag_length>>

\* whether the iteration of the splice loop on lines[i] raises
SpliceRaises ==
    /\ IsInternalMarker(lines[i])
    /\ ~HasLayerColon(lines[i]) /\ ~HasLayerChange(lines[i])
    /\ HasBlocks(current_layer)
    /\ LookaheadRaises(i)

\* one iteration of the splice loop, on lines[i]
SpliceLine ==
    /\ pc = "splice"
    /\ i <= Len(lines)
    /\ ~SpliceRaises
    /\ LET line == lines[i]
       IN  IF HasLayerColon(line)
           THEN /\ current_layer' = NextLayer(line, current_layer)
                /\ output_gcode' = IF CopiesLayerLine(line)
                                   THEN Append(output_gcode, Copied(i))
                                   ELSE output_gcode
                /\ i' = i + 1
           ELSE IF HasLayerChange(line)
           THEN /\ current_layer' = current_layer + 1
                /\ output_gcode' = Append(output_gcode, Copied(i))
                /\ i' = i + 1
           ELSE IF IsInternalMarker(line) /\ HasBlocks(current_layer)
           THEN /\ output_gcode' = Append(output_gcode, Copied(i))
                                   \o Wrapped(current_layer, zigzag_segments[current_layer], 1)
                /\ i' = SkipTo(i)
                /\ UNCHANGED current_layer
           ELSE /\ output_gcode' = Append(output_gcode, Copied(i))
                /\ i' = i + 1
                /\ UNCHANGED current_layer
    /\ UNCHANGED <<zs, edp, lines, pc, current_wall, current_wall_type, inside_perimeter_block,
                   perimeter_block_count, last_xy_move, layer_walls, zigzag_segments,
                   file, file_written, raised, ret, zigzag_length>>

\* the splice loop is over
SpliceEnd ==
    /\ pc = "splice"
    /\ i > Len(lines)
    /\ pc' = "write"
    /\ UNCHANGED <<zs, edp, lines, i, current_layer, current_wall, current_wall_type,
                   inside_perimeter_block, perimeter_block_count, last_xy_move,
                   layer_walls, zigzag_segments, output_gcode, file, file_written,
                   raised, ret, zigzag_length>>

\* variant: the except clause writes the output built so far
FileAfterExceptPartial == OutputText

\* what the except clause of process_gcode leaves in the input file
FileAfterExcept == file
\* whether the except clause has opened the input file for writing
WrittenAfterExcept == file_written

\* except Exception: return input_file (the IndexError of the splice loop)
SpliceRaise ==
    /\ pc = "splice"
    /\ i <= Len(lines)
    /\ SpliceRaises
    /\ raised' = TRUE
    /\ file' = FileAfterExcept
    /\ file_written' = WrittenAfterExcept
    /\ ret' = "input_file"
    /\ pc' = "done"
    /\ output_gcode' = Append(output_gcode, Copied(i))
    /\ UNCHANGED <<zs, edp, lines, i, current_layer, current_wall, current_wall_type,
                   inside_perimeter_block, perimeter_block_count, last_xy_move,
                   layer_walls, zigzag_segments, zigzag_length>>

\* with open(output_file, 'w'): writelines(output_gcode); return output_file
Write ==
    /\ pc = "write"
    /\ file' = [k \in 1..Len(output_gcode) |-> output_gcode[k].txt]
    /\ file_written' = TRUE
    /\ ret' = "input_file"
    /\ pc' = "done"
    /\ UNCHANGED <<zs, edp, lines, i, current_layer, current_wall, current_wall_type,
                   inside_perimeter_block, perimeter_block_count, last_xy_move,
                   layer_walls, zigzag_segments, output_gcode, raised, zigzag_length>>

(* ------------------------------ inputs --------------------------------- *)
\* every shape of line, one text each
Alphabet ==
    {L("hdr"), LayerN(0), LayerN(1), L("layerX"), L("lchg"), L("text"), L("tout"),
     L("tper"), L("tinn"), L("toth"), Ext(10004, 20000, 500000), Trv(10004, 10000),
     L("bad"), L("m73"), L("m106"), L("g92")}

\* the lines that open, fill and close internal walls and layers
MidAlphabet ==
    {L("tper"), Ext(10004, 20000, 500000), L("m106"), L("toth"), L("lchg")}

SeqsUpTo(S, n) == UNION {[1..m -> S] : m \in 0..n}

\* polylines of 2, 3 and 4 points, <<x, y>> in 1e-4 mm
Shapes ==
    << <<<<1004, 3>>, <<20000, 3>>>>,
       <<<<1004, 3>>, <<10000, 3>>, <<21004, 3>>>>,
       <<<<0, 3>>, <<12346, 3>>, <<24000, 3>>, <<24000, 9003>>>> >>

\* the extruding lines of a wall of shape s, printed in row r
WallLines(s, r) ==
    [m \in 1..Len(Shapes[s]) |->
        Ext(Shapes[s][m][1], Shapes[s][m][2] + 4000 * r, 100000 * m)]

\* ';TYPE:Perimeter' and the walls ws[w..], each closed by an M106 line
RECURSIVE WallsFrom(_, _)
WallsFrom(ws, w) ==
    IF w > Len(ws) THEN <<>>
    ELSE WallLines(ws[w], w) \o <<L("m106")>> \o WallsFrom(ws, w + 1)

Body(ws) == <<L("tper")>> \o WallsFrom(ws, 1)

WallChoices == UNION {[1..n -> 1..Len(Shapes)] : n \in 1..MaxWalls}

\* one or two layers of walls, as a slicer writes them
WallInputs ==
    {pre \o Body(ws) \o suf :
        pre \in {<<>>, <<L("lchg")>>, <<Trv(0, 3)>>},
        ws \in WallChoices,
        suf \in {<<>>, <<L("text"), Ext(10004, 20000, 500000)>>}}
    \cup {Body(ws) \o <<L("lchg")>> \o Body(ws) : ws \in WallChoices}

\* the lines that start, continue and end a perimeter block
BlockAlphabet ==
    {Ext(10004, 20000, 500000), L("bad"), L("m73"), Trv(10004, 10000), L("m106"),
     L("hdr"), L("toth")}

\* one internal region: ';TYPE:Perimeter' and up to MaxBlock lines
BlockInputs == {<<L("tper")>> \o s : s \in SeqsUpTo(BlockAlphabet, MaxBlock)}

\* a wall of six extruding lines that a ';TYPE:' marker ends
LongWall == [m \in 1..6 |-> Ext(4000 * m, 3, 100000 * m)]
LongInputs ==
    {<<L("tper")>> \o LongWall \o <<marker>> \o suf :
        marker \in {L("text"), L("tinn"), L("toth")},
        suf \in {<<>>, <<Ext(10004, 20000, 500000), L("m106")>>}}

\* an internal region, a layer marker inside the lines the splice loop skips,
\* the marker that ends the skip and a second internal region
SkipInputs ==
    {<<L("tper"), Ext(10004, 20000, 500000), L("m106"), layer, marker, L("tper")>> \o suf :
        layer \in {L("lchg"), LayerN(1)},
        marker \in {L("text"), L("toth")},
        suf \in {<<>>, <<Ext(20004, 20000, 700000)>>}}

Inputs ==
    SeqsUpTo(Alphabet, MaxLen) \cup SeqsUpTo(MidAlphabet, MaxMid) \cup WallInputs
    \cup BlockInputs \cup LongInputs \cup SkipInputs

\* zigzag_length in 1e-4 mm: the default 2.0 mm, and 0.1 mm
ZigzagLengths(input) == IF input \in WallInputs THEN {20000, 1000} ELSE {20000}

(* ------------------------- Z-shift variants ---------------------------- *)
\* longest input of a Z-shift variant built from its whole line alphabet
MaxZLen == 4
\* most layers of the layered inputs of a Z-shift variant
MaxZLayers == 3

\* current_layer of bricklayers_x1c is an int until the first layer change
\* and a str after it; ProcessGcodeBBL keeps an int
IntLayer(n) == [str |-> FALSE, n |-> n]
StrLayer(n) == [str |-> TRUE, n |-> n]

\* an output line: its text and the index of the input line it was built
\* from (0 for an inserted line)
ZCopied(idx, line) == [src |-> idx, txt |-> line]
ZInserted(line) == [src |-> 0, txt |-> line]

\* line.startswith("G1 Z"), and re.search(r'Z([-\d.]+)', line) matches
IsG1Z(line) == line.k = "g1z"
\* "M73 L1" in line
HasM73L1(line) == line.k = "m73l" /\ (line.n = 1 \/ line.n \in 10..19)
\* line.startswith("M73 L")
StartsWithM73L(line) == line.k = "m73l"
\* line.startswith("G1") and "X" in line and "Y" in line and "F" in line
IsXYF(line) == line.k = "trv"
\* re.search(r'E([-\d.]+)', line)
EMatch(line) == line.k \in {"ext", "bad"}

\* "; total layer number: " in line.lower(), with its number
get_layer_number(gcode_lines) ==
    IF \E k \in 1..Len(gcode_lines) : gcode_lines[k].k = "total"
    THEN gcode_lines[CHOOSE k \in 1..Len(gcode_lines) :
                         /\ gcode_lines[k].k = "total"
                         /\ \A j \in 1..(k - 1) : gcode_lines[j].k # "total"].n
    ELSE -1

\* "; layer_height =" in line.lower(), with its number
get_layer_height(gcode_lines) ==
    IF \E k \in 1..Len(gcode_lines) : gcode_lines[k].k = "lheight"
    THEN gcode_lines[CHOOSE k \in 1..Len(gcode_lines) :
                         /\ gcode_lines[k].k = "lheight"
                         /\ \A j \in 1..(k - 1) : gcode_lines[j].k # "lheight"].n
    ELSE -1

\* total_layers = sum(1 for line in lines if line.startswith("G1 Z"))
CountG1Z(gcode_lines) ==
    Cardinality({k \in 1..Len(gcode_lines) : gcode_lines[k].k = "g1z"})

\* e_value * factor for factor = num / den
MulE(e, num, den) == RDiv(e * num, den)

\* the frame of a call after its initialisation; extrusion_multiplier and
\* zshift_multiplier in thousandths
ZFrame(variant, gcode_lines, layer_height, zshift_multiplier, extrusion_multiplier) ==
    [variant |-> variant,
     layer_height |-> layer_height,
     z_shift |-> RDiv(layer_height * zshift_multiplier, 1000),
     extrusion_multiplier |-> extrusion_multiplier,
     total_layers |-> IF variant = "bbl" THEN CountG1Z(gcode_lines)
                      ELSE get_layer_number(gcode_lines),
     line_count |-> 0,
     print_start |-> FALSE,
     current_layer |-> IntLayer(0),
     current_z |-> 0,
     perimeter_type |-> "none",
     perimeter_block_count |-> 0,
     inside_perimeter_block |-> FALSE,
     is_shifted |-> FALSE,
     modified_lines |-> <<>>]

NoShift == ZFrame("", <<>>, 0, 0, 0)

\* the inserted 'G1 Z' line of block number count
BlockZLine(z, count) ==
    IF count % 2 = 1
    THEN [k |-> "zshift", x |-> Fmt3(z.current_z + z.z_shift), y |-> 0, e |-> 0,
          n |-> count]
    ELSE [k |-> "zreset", x |-> Fmt3(z.current_z), y |-> 0, e |-> 0, n |-> count]

\* the line with its E value adjusted for a shifted block
AdjustE(z, line, count) ==
    IF z.current_layer = IntLayer(0)
    THEN [line EXCEPT !.k = "efirst", !.e = Fmt5(MulE(line.e, 15, 10)), !.n = count]
    ELSE IF z.current_layer = IntLayer(z.total_layers - 1)
    THEN [line EXCEPT !.k = "elast", !.e = Fmt5(MulE(line.e, 5, 10)), !.n = count]
    ELSE [line EXCEPT !.k = "emult",
                      !.e = Fmt5(MulE(line.e, z.extrusion_multiplier, 1000)),
                      !.n = count]

\* perimeter_type after the ';TYPE:' tests of ProcessGcodeBBL
TypeAfterBBL(line, type) == IF HasType(line) THEN MarkerType(line) ELSE type

\* whether a line is one of the three feature tests of bricklayers_x1c:
\* "; FEATURE: Outer wall " in line, "; FEATURE: Inner wall" in line,
\* "; Feature:" in line
MatchesFeature(line) == line.k \in {"fouts", "finn", "flow"}

\* perimeter_type after the feature tests of bricklayers_x1c
TypeAfterX1C(line, type) ==
    IF line.k = "fouts" THEN "external"
    ELSE IF line.k = "finn" THEN "internal"
    ELSE IF line.k = "flow" THEN "none"
    ELSE type

\* "Group lines into perimeter blocks" and the final append, on the line at
\* index idx, with perimeter_type and inside_perimeter_block as the marker
\* tests left them
ShiftLine(z, line, idx, type, inside) ==
    LET grouping == type = "internal" /\ IsExtrudeShape(line)
        starts == grouping /\ ~inside
        count == IF starts THEN z.perimeter_block_count + 1
                 ELSE z.perimeter_block_count
        shifted == IF starts THEN count % 2 = 1 ELSE z.is_shifted
        inserted == IF starts THEN <<ZInserted(BlockZLine(z, count))>> ELSE <<>>
        out == IF grouping /\ shifted /\ EMatch(line) THEN AdjustE(z, line, count)
               ELSE line
    IN  [z EXCEPT !.perimeter_type = type,
                  !.perimeter_block_count = count,
                  !.is_shifted = shifted,
                  !.inside_perimeter_block =
                      IF grouping THEN TRUE
                      ELSE IF type = "internal" /\ IsXYF(line) THEN FALSE
                      ELSE inside,
                  !.modified_lines = @ \o inserted \o <<ZCopied(idx, out)>>]

\* what neither Z-shift variant changes
zigzagVars ==
    <<lines, i, current_layer, current_wall, current_wall_type,
      inside_perimeter_block, perimeter_block_count, last_xy_move, layer_walls,
      zigzag_segments, output_gcode, raised, zigzag_length, edp>>

\* one iteration of the loop of ProcessGcodeBBL
ProcessGcodeBBL ==
    /\ pc = "zshift"
    /\ zs.variant = "bbl"
    /\ zs.line_count < Len(lines)
    /\ LET idx == zs.line_count + 1
           line == lines[idx]
           z == [zs EXCEPT !.line_count = idx]
       IN  zs' = IF IsG1Z(line)
                 THEN [z EXCEPT !.current_z = line.n,
                                !.current_layer = IntLayer(line.n \div z.layer_height),
                                !.perimeter_block_count = 0,
                                !.modified_lines = Append(@, ZCopied(idx, line))]
                 ELSE ShiftLine(z, line, idx, TypeAfterBBL(line, z.perimeter_type),
                                IF HasType(line) THEN FALSE
                                ELSE z.inside_perimeter_block)
    /\ UNCHANGED <<pc, file, file_written, ret>>
    /\ UNCHANGED zigzagVars

\* "Overwrite the input file with the modified G-code"
WriteBBL ==
    /\ pc = "zshift"
    /\ zs.variant = "bbl"
    /\ zs.line_count = Len(lines)
    /\ file' = [k \in 1..Len(zs.modified_lines) |-> zs.modified_lines[k].txt]
    /\ file_written' = TRUE
    /\ pc' = "zdone"
    /\ UNCHANGED <<zs, ret>>
    /\ UNCHANGED zigzagVars

\* one iteration of the loop of bricklayers_x1c
bricklayers_x1c ==
    /\ pc = "zshift"
    /\ zs.variant = "x1c"
    /\ zs.line_count < Len(lines)
    /\ LET idx == zs.line_count + 1
           line == lines[idx]
           z == [zs EXCEPT !.line_count = idx]
           z1 == IF StartsWithM73L(line)
                 THEN [z EXCEPT !.current_layer = StrLayer(line.n),
                                !.perimeter_block_count = 0,
                                !.modified_lines = Append(@, ZCopied(idx, line))]
                 ELSE z
       IN  zs' = IF ~z.print_start /\ HasM73L1(line)
                 THEN [z EXCEPT !.print_start = TRUE,
                                !.current_layer = IntLayer(1),
                                !.modified_lines = Append(@, ZCopied(idx, line))]
                 ELSE IF ~z.print_start
                 THEN [z EXCEPT !.modified_lines = Append(@, ZCopied(idx, line))]
                 ELSE IF IsG1Z(line)
                 THEN [z1 EXCEPT !.current_z = line.n,
                                 !.modified_lines = Append(@, ZCopied(idx, line))]
                 ELSE ShiftLine(z1, line, idx, TypeAfterX1C(line, z1.perimeter_type),
                                IF MatchesFeature(line) THEN FALSE
                                ELSE z1.inside_perimeter_block)
    /\ UNCHANGED <<pc, file, file_written, ret>>
    /\ UNCHANGED zigzagVars

\* return modified_lines
ReturnX1C ==
    /\ pc = "zshift"
    /\ zs.variant = "x1c"
    /\ zs.line_count = Len(lines)
    /\ ret' = "modified_lines"
    /\ pc' = "zdone"
    /\ UNCHANGED <<zs, file, file_written>>
    /\ UNCHANGED zigzagVars

(* -------------------- inputs of the Z-shift variants ------------------- *)
\* layer_height (1e-4 mm), zshift_multiplier and extrusion_multiplier
\* (thousandths) of the calls; the multiples of 0.25 mm are exact doubles, so
\* int(current_z / layer_height) is their integer quotient
ZLayerHeights == {2500}
ZShiftMultipliers == {500}
ZExtrusionMultipliers == {1100}

\* the line shapes of an input, "lc" standing for the line that changes the
\* layer ('G1 Z<z>' for ProcessGcodeBBL, 'M73 L<n>' for bricklayers_x1c) and
\* "gz" for the 'G1 Z<z>' line of the current layer of bricklayers_x1c
ZShapes(variant) ==
    IF variant = "bbl" THEN {"lc", "tper", "text", "toth", "ext", "trv"}
    ELSE {"lc", "gz", "finn", "fouts", "fout", "foth", "flow", "ext", "trv"}

\* the lines of a sequence of shapes, of which k layer changes came before
RECURSIVE ZLinesFrom(_, _, _, _)
ZLinesFrom(shapes, variant, layer_height, k) ==
    IF shapes = <<>> THEN <<>>
    ELSE LET sh == Head(shapes)
             k1 == IF sh = "lc" THEN k + 1 ELSE k
             line == IF sh = "lc"
                     THEN (IF variant = "bbl"
                           THEN [L("g1z") EXCEPT !.n = k1 * layer_height]
                           ELSE [L("m73l") EXCEPT !.n = k1])
                     ELSE IF sh = "gz" THEN [L("g1z") EXCEPT !.n = k * layer_height]
                     ELSE IF sh = "ext" THEN Ext(10004, 20000, 500000)
                     ELSE IF sh = "trv" THEN Trv(10004, 10000)
                     ELSE L(sh)
         IN  <<line>> \o ZLinesFrom(Tail(shapes), variant, layer_height, k1)

\* the body of one layer of a layered input
ZBodies(variant) ==
    IF variant = "bbl"
    THEN {<<"lc", "tper", "ext">>, <<"lc", "tper", "ext", "trv", "ext">>,
          <<"lc", "toth", "ext">>}
    ELSE {<<"lc", "gz", "finn", "ext">>, <<"lc", "gz", "finn", "ext", "trv", "ext">>,
          <<"lc", "gz", "finn", "ext", "foth", "ext", "trv", "ext", "finn", "ext">>}

RECURSIVE ZLayered(_, _)
ZLayered(variant, n) ==
    IF n = 0 THEN {<<>>}
    ELSE {s \o b : s \in ZLayered(variant, n - 1), b \in ZBodies(variant)}

ZShapeSeqs(variant) ==
    SeqsUpTo(ZShapes(variant), MaxZLen)
    \cup UNION {ZLayered(variant, n) : n \in 1..MaxZLayers}

\* the header lines bricklayers_x1c reads its parameters from
ZHeader(variant, shapes, layer_height) ==
    IF variant = "bbl" THEN <<>>
    ELSE <<[L("total") EXCEPT
               !.n = Cardinality({k \in 1..Len(shapes) : shapes[k] = "lc"})],
           [L("lheight") EXCEPT !.n = layer_height]>>

ZInputs(variant, layer_height) ==
    {ZHeader(variant, s, layer_height) \o ZLinesFrom(s, variant, layer_height, 0) :
         s \in ZShapeSeqs(variant)}

(* --------------------------- specification ----------------------------- *)
Init ==
    /\ lines \in Inputs
    /\ zigzag_length \in ZigzagLengths(lines)
    /\ pc = "extract"
    /\ i = 1
    /\ current_layer = 0
    /\ current_wall = <<>>
    /\ current_wall_type = "none"
    /\ inside_perimeter_block = FALSE
    /\ perimeter_block_count = 0
    /\ last_xy_move = None
    /\ layer_walls = <<>>
    /\ zigzag_segments = <<>>
    /\ output_gcode = <<>>
    /\ file = lines
    /\ file_written = FALSE
    /\ raised = FALSE
    /\ ret = ""
    /\ edp = NoCall
    /\ zs = NoShift

Next ==
    \/ ExtractLine
    \/ ExtractEnd
    \/ Synthesize
    \/ SpliceStart
    \/ SpliceLine
    \/ SpliceRaise
    \/ SpliceEnd
    \/ Write

Spec == Init /\ [][Next]_vars

(* ------------- specification of evenly_distribute_points --------------- *)
\* longest wall given to evenly_distribute_points
MaxWallLen == 3
\* largest num_points given to evenly_distribute_points
MaxNumPoints == 5

\* the extruding lines the walls are made of
ResampleLines ==
    {Ext(0, 3, 100000), Ext(12346, 3, 120000), Ext(24000, 3, 140000),
     Ext(24000, 9003, 130000)}

\* the Moves of the lines s, as the extraction pass builds them
MovesOf(s) == [m \in 1..Len(s) |-> parse_gcode(s[m], m)]

\* walls of extruding Moves, with or without a leading travel Move
ResampleWalls ==
    {MovesOf(s) : s \in SeqsUpTo(ResampleLines, MaxWallLen) \ {<<>>}}
    \cup {MovesOf(<<Trv(10004, 10000)>> \o s) : s \in SeqsUpTo(ResampleLines, MaxWallLen - 1)}

InitResample ==
    /\ edp \in {Frame(wall, n) : wall \in ResampleWalls, n \in 1..MaxNumPoints}
    /\ pc = "edp_call"
    /\ lines = <<>>
    /\ zigzag_length = 20000
    /\ i = 1
    /\ current_layer = 0
    /\ current_wall = <<>>
    /\ current_wall_type = "none"
    /\ inside_perimeter_block = FALSE
    /\ perimeter_block_count = 0
    /\ last_xy_move = None
    /\ layer_walls = <<>>
    /\ zigzag_segments = <<>>
    /\ output_gcode = <<>>
    /\ file = <<>>
    /\ file_written = FALSE
    /\ raised = FALSE
    /\ ret = ""
    /\ zs = NoShift

NextResample ==
    \/ ResampleReturnWall
    \/ ResampleBegin
    \/ ResampleSegment
    \/ ResampleEnd

SpecResample == InitResample /\ [][NextResample]_vars

(* ---------------- specification of the Z-shift variants --------------- *)
InitZShift ==
    /\ \E variant \in {"bbl", "x1c"} : \E h \in ZLayerHeights :
           \E zm \in ZShiftMultipliers : \E em \in ZExtrusionMultipliers :
               /\ lines \in ZInputs(variant, h)
               /\ zs = ZFrame(variant, lines,
                              IF variant = "bbl" THEN h ELSE get_layer_height(lines),
                              IF variant = "bbl" THEN 500 ELSE zm, em)
    /\ pc = "zshift"
    /\ zigzag_length = 20000
    /\ i = 1
    /\ current_layer = 0
    /\ current_wall = <<>>
    /\ current_wall_type = "none"
    /\ inside_perimeter_block = FALSE
    /\ perimeter_block_count = 0
    /\ last_xy_move = None
    /\ layer_walls = <<>>
    /\ zigzag_segments = <<>>
    /\ output_gcode = <<>>
    /\ file = lines
    /\ file_written = FALSE
    /\ raised = FALSE
    /\ ret = ""
    /\ edp = NoCall

NextZShift ==
    \/ ProcessGcodeBBL
    \/ WriteBBL
    \/ bricklayers_x1c
    \/ ReturnX1C

SpecZShift == InitZShift /\ [][NextZShift]_vars

(* ------------------------------ claims --------------------------------- *)
Finished == pc \in {"write", "done"} /\ ~raised
Synthesized == pc \in {"splice_start", "splice", "write", "done"}

\* the output positions holding a copy of input line k
CopiesOf(k) == {m \in 1..Len(output_gcode) : output_gcode[m].src = k}

\* input line k is copied exactly once, unchanged
CopiedOnce(k) ==
    /\ Cardinality(CopiesOf(k)) = 1
    /\ \A m \in CopiesOf(k) : output_gcode[m].txt = lines[k]

\* the copies of the input lines of the set K keep their input order
InOrder(K) ==
    \A m1, m2 \in 1..Len(output_gcode) :
        (m1 < m2 /\ output_gcode[m1].src \in K /\ output_gcode[m2].src \in K)
            => output_gcode[m1].src < output_gcode[m2].src

\* line k lies in an internal-perimeter region: after an internal type marker,
\* before the next ';TYPE:' marker that is not internal
InRegion(k) ==
    \E t \in 1..(k - 1) :
        /\ IsInternalMarker(lines[t])
        /\ \A u \in (t + 1)..k : ~(HasType(lines[u]) /\ ~IsInternalMarker(lines[u]))

OutsideLines == {k \in 1..Len(lines) : ~InRegion(k)}

\* the current type is internal when line k is read
InternalAt(k) ==
    \E t \in 1..k :
        /\ IsInternalMarker(lines[t])
        /\ \A u \in (t + 1)..k : ~HasType(lines[u])

\* the layer line k belongs to
RECURSIVE LayerAt(_)
LayerAt(k) == IF k = 0 THEN 0 ELSE NextLayer(lines[k], LayerAt(k - 1))

\* <<layer, wall, position>> of every Move stored in layer_walls
Places ==
    UNION {UNION {{<<l, w, m>> : m \in 1..Len(layer_walls[l][w])} :
                      w \in 1..Len(layer_walls[l])} : l \in DOMAIN layer_walls}

MoveAt(pl) == layer_walls[pl[1]][pl[2]][pl[3]]

\* 0-based indices of the first walls of the candidate pairs of a layer:
\* 0, 2, 4, ... on an even layer, 1, 3, 5, ... on an odd one
PairStarts(layer) ==
    {w \in 0..(Len(layer_walls[layer]) - 2) : w % 2 = layer % 2}

\* position, in the block list of the layer, of the block of the pair at w
BlockIndex(layer, w) == IF layer % 2 = 0 THEN w \div 2 + 1 ELSE (w - 1) \div 2 + 2

IsZigzagLine(line) == line.k \in {"zstart", "zseg", "zconn", "zfinal"}
IsExtrudingZigzagLine(line) == line.k \in {"zseg", "zconn"}

\* C1: when extraction yields no internal wall in any layer (in particular
\* when the input has no internal-perimeter type marker), the output line
\* sequence, and the file written, equal the input line sequence
C1_PassThrough ==
    /\ (Finished /\ DOMAIN layer_walls = {}) => OutputText = lines
    /\ (pc = "done" /\ DOMAIN layer_walls = {}) => (~raised /\ file = lines)
    /\ (pc = "done" /\ \A k \in 1..Len(lines) : ~IsInternalMarker(lines[k]))
           => (DOMAIN layer_walls = {} /\ file = lines)

\* a finished run without walls on an input holding an internal marker, an
\* extruding line and a ';LAYER:' line without digits
C1_Witness ==
    /\ pc = "done" /\ file_written /\ DOMAIN layer_walls = {}
    /\ \E k \in 1..Len(lines) : IsInternalMarker(lines[k])
    /\ \E k \in 1..Len(lines) : lines[k].k = "ext"
    /\ \E k \in 1..Len(lines) : lines[k].k = "layerX"

\* C2: when at least one block was synthesized, every input line outside
\* every internal-perimeter region is copied to the output exactly once,
\* unchanged, in its original relative order
C2_OutsideLinesKept ==
    (Finished /\ DOMAIN zigzag_segments # {})
        => /\ \A k \in OutsideLines : CopiedOnce(k)
           /\ InOrder(OutsideLines)

\* C3: when an exception escapes the passes the input file is never written
\* and the input path is returned; the file is written only after all passes
\* have completed without error
C3_NoWriteOnError ==
    /\ raised => (pc = "done" /\ ~file_written /\ file = lines /\ ret = "input_file")
    /\ pc # "done" => (~file_written /\ file = lines)
    /\ file_written => (~raised /\ pc = "done" /\ file = OutputText)

\* the splice loop raised after blocks had been synthesized and output begun
C3_Witness ==
    /\ raised /\ pc = "done" /\ DOMAIN zigzag_segments # {} /\ output_gcode # <<>>
    /\ OutputText # lines

\* C4: after extraction every well-formed extruding line read while the
\* current type is internal is in exactly one Wall of layer_walls, and no
\* Move object is in two Walls
C4_Partition ==
    pc # "extract"
        => /\ \A k \in 1..Len(lines) :
                  (lines[k].k = "ext" /\ InternalAt(k))
                      => Cardinality({pl \in Places : MoveAt(pl).obj = 2 * k}) = 1
           /\ \A p1, p2 \in Places :
                  MoveAt(p1).obj = MoveAt(p2).obj => (p1[1] = p2[1] /\ p1[2] = p2[2])

\* C5: over the whole output each synthesized block of a layer is emitted at
\* most once
C5_BlockEmittedOnce ==
    \A l \in DOMAIN zigzag_segments : \A b \in 1..Len(zigzag_segments[l]) :
        Cardinality({m \in 1..Len(output_gcode) :
                        /\ output_gcode[m].blk = <<l, b>>
                        /\ output_gcode[m].txt.k = "zbegin"}) <= 1

\* C6: all lines of a layer for which extraction produced no wall are copied
\* to the output unchanged and in original order
C6_WallLessLayerKept ==
    Finished
        => LET K == {k \in 1..Len(lines) : LayerAt(k) \notin DOMAIN layer_walls}
           IN  (\A k \in K : CopiedOnce(k)) /\ InOrder(K)

\* C7: the block of a zigzagged pair starts with a move to wall1's first Move
\* and ends with a move to wall2's last Move, at the output precision
C7_Continuity ==
    Synthesized
        => \A l \in DOMAIN layer_walls : \A w \in PairStarts(l) :
               LET wall1 == layer_walls[l][w + 1]
                   wall2 == layer_walls[l][w + 2]
                   block == zigzag_segments[l][BlockIndex(l, w)]
               IN  (Len(wall1) >= 3 /\ Len(wall2) >= 3)
                       => /\ block[1].k = "zstart"
                          /\ block[1].x = Fmt3(wall1[1].x)
                          /\ block[1].y = Fmt3(wall1[1].y)
                          /\ block[Len(block)].k = "zfinal"
                          /\ block[Len(block)].x = Fmt3(wall2[Len(wall2)].x)
                          /\ block[Len(block)].y = Fmt3(wall2[Len(wall2)].y)

\* a zigzagged pair whose walls start at different points
C7_Witness ==
    /\ pc = "done"
    /\ \E l \in DOMAIN layer_walls : \E w \in PairStarts(l) :
           /\ Len(layer_walls[l][w + 1]) >= 3 /\ Len(layer_walls[l][w + 2]) >= 3
           /\ layer_walls[l][w + 1][1].x # layer_walls[l][w + 2][1].x
           /\ zigzag_segments[l][BlockIndex(l, w)][1].k = "zstart"

\* C8: within a zigzag block the E values of the extruding moves, read in
\* emission order, never decrease
C8_ExtrusionMonotone ==
    \A l \in DOMAIN zigzag_segments : \A b \in 1..Len(zigzag_segments[l]) :
        LET block == zigzag_segments[l][b]
        IN  \A m \in 1..(Len(block) - 1) :
                (IsExtrudingZigzagLine(block[m]) /\ IsExtrudingZigzagLine(block[m + 1]))
                    => block[m + 1].e >= block[m].e

C10_ShortPairPassThrough ==
    Synthesized
        => \A l \in DOMAIN layer_walls :
               /\ \A w \in PairStarts(l) :
                      LET wall1 == layer_walls[l][w + 1]
                          wall2 == layer_walls[l][w + 2]
                          block == zigzag_segments[l][BlockIndex(l, w)]
                      IN  (Len(wall1) < 3 \/ Len(wall2) < 3)
                              => /\ block = [m \in 1..Len(wall1) |-> wall1[m].line]
                                            \o [m \in 1..Len(wall2) |-> wall2[m].line]
                                 /\ \A m \in 1..Len(block) : ~IsZigzagLine(block[m])
               /\ Len(zigzag_segments[l]) = (Len(layer_walls[l]) + (l % 2) + 1) \div 2

\* a pair of a 2-Move wall and a wall of at least 3 Moves
C10_Witness ==
    /\ pc = "done"
    /\ \E l \in DOMAIN layer_walls : \E w \in PairStarts(l) :
           /\ Len(layer_walls[l][w + 1]) = 2
           /\ Len(layer_walls[l][w + 2]) >= 3

(* --------------------- claims on the resampler ------------------------- *)
Abs(a) == IF a < 0 THEN -a ELSE a

\* the call of evenly_distribute_points has returned edp.result
Returned == pc = "edp_done"

\* the points p and q have the same coordinates, up to the rounding the
\* fixed-point arithmetic accumulates over the inserted points
SameXY(p, q) ==
    /\ p.x # NaN /\ p.y # NaN
    /\ Abs(p.x - q.x) <= edp.num_points
    /\ Abs(p.y - q.y) <= edp.num_points

\* C11: for every wall of at least 2 points and every n >= 2,
\* evenly_distribute_points(wall, n) returns at least 2 and at most n points,
\* the first is the wall's first point and the last has the coordinates of
\* the wall's last point
C11_ResampleEnds ==
    (Returned /\ Len(edp.wall) >= 2 /\ edp.num_points >= 2)
        => /\ Len(edp.result) >= 2
           /\ Len(edp.result) <= edp.num_points
           /\ edp.result[1] = edp.wall[1]
           /\ SameXY(edp.result[Len(edp.result)], edp.wall[Len(edp.wall)])

\* arc length, along edp.wall, of the j-th point of edp.result, for a point
\* of the wall's start or one interpolated on segment edp.on[j]
ArcPos(j) ==
    IF edp.on[j] = 0 THEN 0
    ELSE calculate_wall_length(SubSeq(edp.wall, 1, edp.on[j]))
         + Distance(edp.wall[edp.on[j]], edp.result[j])

\* C12: every interpolated point lies at arc length total_length/(n-1) along
\* the wall from the previously emitted point, the rest of a segment after
\* its last inserted point counting toward the next point (walls of positive
\* length; arc lengths compared to the rounding of the arithmetic)
C12_EvenSpacing ==
    (pc \in {"edp_loop", "edp_done"} /\ calculate_wall_length(edp.wall) > 0)
        => \A j \in 2..Len(edp.result) :
               edp.on[j] > 0
                   => Abs(ArcPos(j) - ArcPos(j - 1)
                          - SegmentLength(edp.wall, edp.num_points)) <= edp.num_points

(* --------------------- claims on the extraction ------------------------ *)
\* an internal perimeter block is open
BlockOpen == inside_perimeter_block /\ current_wall_type = "internal"

\* the extraction loop is about to read lines[i]
Reading == pc = "extract" /\ i <= Len(lines)

\* C13: a line with the shape of an extruding move whose coordinates do not
\* parse, read while an internal block is open, is not added to the open
\* Wall and leaves the block open; a valid extruding line read while the
\* block is open is appended to that same Wall
C13_MalformedLineSkipped ==
    [][(Reading /\ BlockOpen)
           => /\ lines[i].k = "bad"
                     => /\ current_wall' = current_wall
                        /\ inside_perimeter_block' /\ current_wall_type' = "internal"
                        /\ layer_walls' = layer_walls
              /\ lines[i].k = "ext"
                     => /\ current_wall' = Append(current_wall, parse_gcode(lines[i], i))
                        /\ inside_perimeter_block' /\ current_wall_type' = "internal"
                        /\ layer_walls' = layer_walls]_vars

\* an extruding line, a malformed line and an extruding line have been read
\* in a row, and the open Wall ends with the Moves of the two extruding lines
C13_Witness ==
    /\ pc = "extract" /\ i >= 4 /\ BlockOpen
    /\ lines[i - 3].k = "ext" /\ lines[i - 2].k = "bad" /\ lines[i - 1].k = "ext"
    /\ Len(current_wall) >= 2
    /\ current_wall[Len(current_wall) - 1].obj = 2 * (i - 3)
    /\ current_wall[Len(current_wall)].obj = 2 * (i - 1)

(* --------------------- claims on the synthesis ------------------------- *)
\* the number of lines of kind k in a block
CountKind(block, k) == Cardinality({m \in 1..Len(block) : block[m].k = k})

\* C14: the block of a zigzagged pair is one travel move, then only
\* extruding moves, then one travel move; with M the least of the lengths of
\* the two resampled walls and of num_segments it has exactly M - 1
\* cross-connect moves
C14_BlockShape ==
    Synthesized
        => \A l \in DOMAIN layer_walls : \A w \in PairStarts(l) :
               LET wall1 == layer_walls[l][w + 1]
                   wall2 == layer_walls[l][w + 2]
                   block == zigzag_segments[l][BlockIndex(l, w)]
                   n == NumSegments(wall1, wall2, zigzag_length)
                   M == Min(Min(Len(evenly_distribute_points(wall1, n)),
                                Len(evenly_distribute_points(wall2, n))), n)
               IN  (Len(wall1) >= 3 /\ Len(wall2) >= 3)
                       => /\ Len(block) >= 3
                          /\ block[1].k = "zstart"
                          /\ block[Len(block)].k = "zfinal"
                          /\ \A m \in 2..(Len(block) - 1) : IsExtrudingZigzagLine(block[m])
                          /\ CountKind(block, "zseg") = M - 1

\* a zigzagged pair with num_segments = 20 and 19 cross-connect moves, and
\* one whose resampled walls are shorter than num_segments
C14_Witness ==
    /\ pc = "done"
    /\ \E l \in DOMAIN layer_walls : \E w \in PairStarts(l) :
           /\ Len(layer_walls[l][w + 1]) >= 3 /\ Len(layer_walls[l][w + 2]) >= 3
           /\ NumSegments(layer_walls[l][w + 1], layer_walls[l][w + 2], zigzag_length) = 20
           /\ CountKind(zigzag_segments[l][BlockIndex(l, w)], "zseg") = 19
    /\ \E l \in DOMAIN layer_walls : \E w \in PairStarts(l) :
           /\ Len(layer_walls[l][w + 1]) >= 3 /\ Len(layer_walls[l][w + 2]) >= 3
           /\ CountKind(zigzag_segments[l][BlockIndex(l, w)], "zseg") + 1
                  < NumSegments(layer_walls[l][w + 1], layer_walls[l][w + 2], zigzag_length)

\* the walls (1-based, first and last) the b-th block of layer l stands for
\* when the blocks cover the walls in order: wall 1 alone on an odd layer,
\* then pairs, then a trailing single wall
FirstWallOf(l, b) == IF l % 2 = 1 THEN (IF b = 1 THEN 1 ELSE 2 * (b - 1)) ELSE 2 * b - 1
LastWallOf(l, b) ==
    IF l % 2 = 1 /\ b = 1 THEN 1
    ELSE Min(FirstWallOf(l, b) + 1, Len(layer_walls[l]))

\* C15: the blocks of a layer with n >= 1 walls cover every wall exactly
\* once and in order (each block stands for one wall or for two consecutive
\* walls, the first block starts at wall 1, each next block at the wall after
\* the previous block's last, and the last block ends at wall n), and the
\* block of a single wall is that wall's original lines in order
C15_BlocksCoverWalls ==
    Synthesized
        => \A l \in DOMAIN layer_walls :
               LET walls == layer_walls[l]
                   blocks == zigzag_segments[l]
               IN  Len(walls) >= 1
                       => /\ Len(blocks) >= 1
                          /\ LastWallOf(l, Len(blocks)) = Len(walls)
                          /\ \A b \in 1..Len(blocks) :
                                 LET f == FirstWallOf(l, b)
                                     g == LastWallOf(l, b)
                                 IN  /\ f <= Len(walls)
                                     /\ g = f
                                            => blocks[b] = [m \in 1..Len(walls[f])
                                                               |-> walls[f][m].line]
                                     /\ g = f + 1
                                            => \/ blocks[b] = [m \in 1..Len(walls[f])
                                                                  |-> walls[f][m].line]
                                                              \o [m \in 1..Len(walls[g])
                                                                     |-> walls[g][m].line]
                                               \/ /\ Len(walls[f]) >= 3 /\ Len(walls[g]) >= 3
                                                  /\ blocks[b] = Zigzag(walls[f], walls[g],
                                                                        zigzag_length)

\* an odd layer of two walls (two single blocks) after an even layer of two
\* walls (one pair)
C15_Witness ==
    /\ pc = "done"
    /\ \E l \in DOMAIN layer_walls :
           l % 2 = 1 /\ Len(layer_walls[l]) = 2 /\ Len(zigzag_segments[l]) = 2
    /\ \E l \in DOMAIN layer_walls :
           l % 2 = 0 /\ Len(layer_walls[l]) = 2 /\ Len(zigzag_segments[l]) = 1

\* C16: a ';TYPE:' marker read while an internal block is open with a
\* non-empty Wall appends that Wall, whatever its length, to the wall list of
\* the current layer
C16_WallSavedAtMarker ==
    [][(Reading /\ HasType(lines[i]) /\ BlockOpen /\ current_wall # <<>>)
           => layer_walls' = AddWall(layer_walls, current_layer, current_wall)]_vars

\* the step appends the open Wall to the wall list of the layer and closes
\* the block
FinalizesWall ==
    /\ layer_walls' = AddWall(layer_walls, current_layer', current_wall)
    /\ current_wall' = <<>>
    /\ ~inside_perimeter_block'

\* C17: while an internal block is open an 'M73 ' line leaves the Wall, the
\* block state and the wall lists as they are, so the extruding lines around
\* it share one Wall; any other M command, a G1 move without E or a comment
\* line (a line starting with ';' that is not a ';TYPE:' marker) finalizes the
\* open non-empty Wall and closes the block
C17_BlockEnd ==
    [][(Reading /\ BlockOpen)
           => /\ lines[i].k = "m73"
                     => /\ current_wall' = current_wall
                        /\ inside_perimeter_block' /\ current_wall_type' = "internal"
                        /\ layer_walls' = layer_walls
              /\ (/\ current_wall # <<>>
                  /\ \/ StartsWithM(lines[i]) /\ lines[i].k # "m73"
                     \/ IsTravelNoE(lines[i])
                     \/ IsComment(lines[i]) /\ ~HasType(lines[i]))
                     => FinalizesWall]_vars

\* an extruding line, an M73 line and an extruding line have been read in a
\* row, and the open Wall ends with the Moves of the two extruding lines
C17_Witness ==
    /\ pc = "extract" /\ i >= 4 /\ BlockOpen
    /\ lines[i - 3].k = "ext" /\ lines[i - 2].k = "m73" /\ lines[i - 1].k = "ext"
    /\ Len(current_wall) >= 2
    /\ current_wall[Len(current_wall) - 1].obj = 2 * (i - 3)
    /\ current_wall[Len(current_wall)].obj = 2 * (i - 1)

\* C18: a line with the shape of an extruding move whose coordinates do not
\* parse, read while the type is internal and no block is open, starts no
\* block (the block flag stays false, the block counter is not incremented,
\* no travel Move is put in a new Wall); read while a block is open it does
\* not end the block
C18_MalformedLineOpaque ==
    [][(Reading /\ lines[i].k = "bad")
           => /\ (current_wall_type = "internal" /\ ~inside_perimeter_block)
                     => /\ ~inside_perimeter_block'
                        /\ perimeter_block_count' = perimeter_block_count
                        /\ current_wall' = <<>>
              /\ BlockOpen => (inside_perimeter_block' /\ layer_walls' = layer_walls)]_vars

\* the Walls extracted so far
ExtractedWalls ==
    UNION {{layer_walls[l][w] : w \in 1..Len(layer_walls[l])} : l \in DOMAIN layer_walls}

\* index of the line of the first extruding Move of a Wall (0: none)
FirstExtruding(wall) ==
    IF \E m \in 1..Len(wall) : ~wall[m].is_travel
    THEN wall[CHOOSE m \in 1..Len(wall) :
                  ~wall[m].is_travel /\ \A m2 \in 1..(m - 1) : wall[m2].is_travel].obj \div 2
    ELSE 0

\* index of the most recent well-formed G1 line with X and Y before line k
\* (0: none)
PrevXY(k) ==
    IF \E j \in 1..(k - 1) : IsG1XY(lines[j]) /\ XYMatch(lines[j])
    THEN CHOOSE j \in 1..(k - 1) :
             /\ IsG1XY(lines[j]) /\ XYMatch(lines[j])
             /\ \A j2 \in (j + 1)..(k - 1) : ~(IsG1XY(lines[j2]) /\ XYMatch(lines[j2]))
    ELSE 0

\* C19: in every extracted Wall only the Move at index 0 can be a travel; a
\* Wall starts with a travel Move exactly when the most recent G1 line with
\* X and Y before the Wall's first extruding line was a travel, and that
\* line's Move is the one prepended
C19_LeadingTravel ==
    \A wall \in ExtractedWalls :
        /\ \A m \in 2..Len(wall) : ~wall[m].is_travel
        /\ FirstExtruding(wall) > 0
               => LET j == PrevXY(FirstExtruding(wall))
                  IN  /\ wall[1].is_travel <=> (j > 0 /\ lines[j].k = "trv")
                      /\ wall[1].is_travel => wall[1].line = lines[j]

\* C20: when the input ends while an internal block is open with a non-empty
\* Wall, that Wall is appended once, as the last Wall of the current layer;
\* when no block is open or the Wall is empty the wall lists stay as they are
C20_FinalWall ==
    [][(pc = "extract" /\ i > Len(lines))
           => IF BlockOpen /\ current_wall # <<>>
              THEN /\ current_layer \in DOMAIN layer_walls'
                   /\ LET walls == layer_walls'[current_layer]
                      IN  /\ walls[Len(walls)] = current_wall
                          /\ \A l \in DOMAIN layer_walls :
                                 layer_walls[l] = IF l = current_layer
                                                  THEN SubSeq(walls, 1, Len(walls) - 1)
                                                  ELSE layer_walls'[l]
                   /\ DOMAIN layer_walls' = DOMAIN layer_walls \cup {current_layer}
                   /\ current_layer \notin DOMAIN layer_walls
                          => Len(layer_walls'[current_layer]) = 1
              ELSE layer_walls' = layer_walls]_vars

\* the input ended on an extruding line of an open block, and its Move is in
\* the last Wall of the current layer
C20_Witness ==
    /\ pc = "synthesize" /\ Len(lines) >= 3
    /\ lines[Len(lines)].k = "ext" /\ BlockOpen
    /\ current_layer \in DOMAIN layer_walls
    /\ LET walls == layer_walls[current_layer]
       IN  /\ Len(walls) >= 2
           /\ walls[Len(walls)] = current_wall
           /\ current_wall[Len(current_wall)].obj = 2 * Len(lines)

(* ------------------- claims on the layer tracking ---------------------- *)
\* C21: during the extraction scan current_layer never decreases: a
\* ';LAYER_CHANGE' line adds 1 and a ';LAYER:<n>' line never moves it to a
\* smaller value
C21_LayerMonotone ==
    [][Reading
           => /\ current_layer' >= current_layer
              /\ HasLayerChange(lines[i]) => current_layer' = current_layer + 1]_vars

(* ------------------- claims on the zigzag loop ------------------------- *)
\* a / b rounded to the nearest integer, a tie to the even one (a >= 0, b > 0)
RoundHalfEven(a, b) ==
    LET q == a \div b
        r == a % b
    IN  IF 2 * r < b THEN q
        ELSE IF 2 * r > b THEN q + 1
        ELSE IF q % 2 = 0 THEN q ELSE q + 1

\* max(20, round(avg(L1, L2) / zigzag_length))
RoundedSegments(wall1, wall2) ==
    Max(20, RoundHalfEven(calculate_wall_length(wall1) + calculate_wall_length(wall2),
                          2 * zigzag_length))

\* C22: every zigzagged pair is resampled to
\* max(20, round(avg(L1, L2) / zigzag_length)) points, the quotient rounded
\* to the nearest integer
C22_SegmentsRounded ==
    Synthesized
        => \A l \in DOMAIN layer_walls : \A w \in PairStarts(l) :
               LET wall1 == layer_walls[l][w + 1]
                   wall2 == layer_walls[l][w + 2]
               IN  (Len(wall1) >= 3 /\ Len(wall2) >= 3)
                       => /\ NumSegments(wall1, wall2, zigzag_length)
                                 = RoundedSegments(wall1, wall2)
                          /\ zigzag_segments[l][BlockIndex(l, w)]
                                 = ZigzagOf(wall1, wall2, RoundedSegments(wall1, wall2))

\* C23: at every step j of the zigzag loop, the last one included, when the
\* resampled list of the wall just arrived at has a point at index j+1 the
\* cross-connect move is followed by a connector move to that point
C23_ConnectorEveryStep ==
    Synthesized
        => \A l \in DOMAIN layer_walls : \A w \in PairStarts(l) :
               LET wall1 == layer_walls[l][w + 1]
                   wall2 == layer_walls[l][w + 2]
                   block == zigzag_segments[l][BlockIndex(l, w)]
                   n == NumSegments(wall1, wall2, zigzag_length)
                   wall1_points == evenly_distribute_points(wall1, n)
                   wall2_points == evenly_distribute_points(wall2, n)
               IN  (Len(wall1) >= 3 /\ Len(wall2) >= 3)
                       => \A m \in 1..(Len(block) - 1) :
                              LET j == block[m].n
                                  arrived == IF j % 2 = 0 THEN wall2_points
                                             ELSE wall1_points
                              IN  (block[m].k = "zseg" /\ j + 1 < Len(arrived))
                                      => /\ block[m + 1].k = "zconn"
                                         /\ block[m + 1].x = Fmt3(arrived[j + 2].x)
                                         /\ block[m + 1].y = Fmt3(arrived[j + 2].y)

\* C24: during the zigzag synthesis of a pair with at least 3 Moves in each
\* wall every subscript applied to a resampled list, j or j+1, is inside the
\* list or has been replaced by the list's last point, so no lookup raises
C24_LookupsInRange ==
    (pc = "synthesize" \/ Synthesized)
        => \A l \in DOMAIN layer_walls : \A w \in PairStarts(l) :
               LET wall1 == layer_walls[l][w + 1]
                   wall2 == layer_walls[l][w + 2]
                   n == NumSegments(wall1, wall2, zigzag_length)
               IN  (Len(wall1) >= 3 /\ Len(wall2) >= 3)
                       => \A read \in ZigzagReads(evenly_distribute_points(wall1, n),
                                                  evenly_distribute_points(wall2, n), n) :
                              \/ 0 <= read.idx /\ read.idx < read.len
                              \/ read.idx = -1 /\ read.len > 0

\* a zigzag was synthesized for a pair of which one list came out shorter
\* than num_segments, so the length of the list bounds the loop
C24_Witness ==
    /\ pc = "splice_start"
    /\ ~raised
    /\ \E l \in DOMAIN layer_walls : \E w \in PairStarts(l) :
           LET wall1 == layer_walls[l][w + 1]
               wall2 == layer_walls[l][w + 2]
               n == NumSegments(wall1, wall2, zigzag_length)
           IN  /\ Len(wall1) >= 3 /\ Len(wall2) >= 3
               /\ Len(evenly_distribute_points(wall1, n)) < n
               /\ CountKind(zigzag_segments[l][BlockIndex(l, w)], "zseg")
                      = Len(evenly_distribute_points(wall1, n)) - 1

(* ------------------- claims on the spliced output ---------------------- *)
IsSentinel(line) == line.k \in {"zbegin", "zend"}

\* the output positions holding a sentinel line
Sentinels == {p \in 1..Len(output_gcode) : IsSentinel(output_gcode[p].txt)}

\* C25: in the Splicer output the blocks emitted for an internal marker come
\* right after the marker line, each block immediately preceded by
\* ';ZIGZAG_PERIMETER_REPLACEMENT' and immediately followed by
\* ';END_ZIGZAG_PERIMETER', in queue order; the two sentinels strictly
\* alternate, never nested or unmatched
C25_SentinelsWrapBlocks ==
    LET o == output_gcode
        block(p) == zigzag_segments[o[p].blk[1]][o[p].blk[2]]
        end(p) == p + Len(block(p)) + 1
        begins == {p \in 1..Len(o) : o[p].txt.k = "zbegin"}
    IN  /\ \A p \in begins :
               /\ end(p) <= Len(o)
               /\ \A m \in 1..Len(block(p)) : o[p + m].txt = block(p)[m]
               /\ o[end(p)].txt = L("zend")
               /\ p > 1
               /\ IF o[p].blk[2] = 1
                  THEN o[p - 1].src > 0 /\ IsInternalMarker(o[p - 1].txt)
                  ELSE /\ o[p - 1].txt = L("zend")
                       /\ o[p - 1].blk = <<o[p].blk[1], o[p].blk[2] - 1>>
               /\ o[p].blk[2] < Len(zigzag_segments[o[p].blk[1]])
                      => /\ end(p) < Len(o)
                         /\ o[end(p) + 1].txt = L("zbegin")
                         /\ o[end(p) + 1].blk = <<o[p].blk[1], o[p].blk[2] + 1>>
        /\ \A q \in 1..Len(o) :
               o[q].src = 0 => \E p \in begins : p <= q /\ q <= end(p)
        /\ \A p \in Sentinels :
               LET before == {q \in Sentinels : q < p}
               IN  IF o[p].txt.k = "zbegin"
                   THEN \A q \in before : (\A r \in before : r <= q) => o[q].txt.k = "zend"
                   ELSE /\ before # {}
                        /\ \A q \in before :
                               (\A r \in before : r <= q) => o[q].txt.k = "zbegin"
        /\ \A p \in Sentinels : (\A r \in Sentinels : r <= p) => o[p].txt.k = "zend"

\* a finished run that emitted two blocks for one marker and copied input
\* lines after them
C25_Witness ==
    /\ Finished
    /\ \E p \in Sentinels :
           /\ output_gcode[p].txt.k = "zend"
           /\ output_gcode[p].blk[2] = 2
           /\ p < Len(output_gcode)
           /\ output_gcode[p + 1].src > 0

(* ------------------- claims on the extractor state --------------------- *)
\* C29: in every state the Extractor reaches after processing a line,
\* inside_perimeter_block implies current_wall_type = internal; and a type
\* marker leaves inside_perimeter_block false and the open Wall empty
C29_InsideImpliesInternal ==
    /\ inside_perimeter_block => current_wall_type = "internal"
    /\ (pc = "extract" /\ i > 1 /\ HasType(lines[i - 1]))
           => ~inside_perimeter_block /\ current_wall = <<>>

\* a type marker has just been processed right after an extruding line of an
\* internal section, so it was read with the block open
C29_Witness ==
    /\ pc = "extract"
    /\ i > 2
    /\ HasType(lines[i - 1])
    /\ lines[i - 2].k = "ext"
    /\ InternalAt(i - 2)
    /\ ~inside_perimeter_block
    /\ current_wall = <<>>

\* C30: every extracted Wall is stored in the wall list of the layer that
\* was current when its extruding lines were read; in particular a Wall whose
\* block is ended by a layer marker is filed under the layer before the marker
C30_WallFiledUnderItsLayer ==
    \A pl \in Places :
        MoveAt(pl).obj % 2 = 0 => LayerAt(MoveAt(pl).obj \div 2) = pl[1]

(* ------------------- claims on the Z-shift variants -------------------- *)
\* whether the line at index k is read by the block code of the variant:
\* bricklayers_x1c skips everything up to the first 'M73 L1'
ZStartedAt(k) ==
    zs.variant = "bbl" \/ \E j \in 1..(k - 1) : HasM73L1(lines[j])

\* a perimeter-type marker of PrusaSlicer or a feature marker of OrcaSlicer
IsZMarker(line) ==
    IF zs.variant = "bbl" THEN HasType(line)
    ELSE line.k \in {"finn", "fout", "fouts", "foth", "flow"}

\* the feature a marker line announces
ZMarkerKind(line) ==
    IF line.k \in {"tper", "tinn", "finn"} THEN "internal"
    ELSE IF line.k \in {"text", "tout", "fout", "fouts"} THEN "external"
    ELSE "none"

\* the feature the line at index k belongs to
ZFeatureAt(k) ==
    IF \E t \in 1..k : ZStartedAt(t) /\ IsZMarker(lines[t])
    THEN ZMarkerKind(lines[CHOOSE t \in 1..k :
                               /\ ZStartedAt(t) /\ IsZMarker(lines[t])
                               /\ \A u \in (t + 1)..k : ~IsZMarker(lines[u])])
    ELSE "none"

\* an extruding line of an internal perimeter
ZIsBlockLine(k) ==
    ZStartedAt(k) /\ IsExtrudeShape(lines[k]) /\ ZFeatureAt(k) = "internal"

\* the lines j < k belong to one internal perimeter block: no marker and
\* no travel move lies between them
ZSameBlock(j, k) ==
    /\ ZIsBlockLine(j) /\ ZIsBlockLine(k)
    /\ \A u \in (j + 1)..(k - 1) : ~IsZMarker(lines[u]) /\ ~IsXYF(lines[u])

\* the first extruding line of an internal perimeter block
ZBlockStart(k) == ZIsBlockLine(k) /\ ~\E j \in 1..(k - 1) : ZSameBlock(j, k)

\* the line that changes the layer
ZIsLayerChange(line) ==
    IF zs.variant = "bbl" THEN IsG1Z(line) ELSE StartsWithM73L(line)

\* the number of the block that starts at line k among the internal
\* perimeter blocks of its layer
ZBlockOrdinal(k) ==
    Cardinality({j \in 1..k : /\ ZBlockStart(j)
                              /\ \A u \in j..k : ~ZIsLayerChange(lines[u])})

\* the block number of the internal perimeter block line k belongs to
ZBlockOf(k) ==
    ZBlockOrdinal(CHOOSE j \in 1..k : ZBlockStart(j) /\ (j = k \/ ZSameBlock(j, k)))

\* the layer of line k, layers counted from 1; the number of layers
ZLayerOf(k) == Cardinality({u \in 1..k : ZIsLayerChange(lines[u])})
ZLayers == ZLayerOf(Len(lines))

\* the height of the last 'G1 Z' line read before line k
ZCurrentZAt(k) ==
    IF \E u \in 1..(k - 1) : ZStartedAt(u) /\ IsG1Z(lines[u])
    THEN lines[CHOOSE u \in 1..(k - 1) :
                   /\ ZStartedAt(u) /\ IsG1Z(lines[u])
                   /\ \A v \in (u + 1)..(k - 1) : ~IsG1Z(lines[v])].n
    ELSE 0

\* C26: in both Z-shift variants the k-th internal perimeter block of a layer
\* gets exactly one inserted 'G1 Z' line, immediately before its first
\* extruding line, carrying current_z + z_shift when k is odd and current_z
\* when k is even, k counting from 1 after every layer change
C26_BlockZInserted ==
    LET o == zs.modified_lines
    IN  /\ \A p \in 1..Len(o) :
               (o[p].src > 0 /\ ZBlockStart(o[p].src))
                   => /\ p > 1
                      /\ o[p - 1].src = 0
                      /\ o[p - 1].txt.x =
                             Fmt3(ZCurrentZAt(o[p].src)
                                  + (IF ZBlockOrdinal(o[p].src) % 2 = 1
                                     THEN zs.z_shift ELSE 0))
        /\ \A p \in 1..Len(o) :
               o[p].src = 0
                   => p < Len(o) /\ o[p + 1].src > 0 /\ ZBlockStart(o[p + 1].src)

\* C27: in both Z-shift variants the E value of every extruding line of a
\* shifted (odd) block is multiplied by 1.5 on the first layer, by 0.5 on the
\* last layer and by extrusion_multiplier on the others; the lines of the
\* other blocks keep their E value
C27_ShiftedBlockExtrusion ==
    LET o == zs.modified_lines
    IN  \A p \in 1..Len(o) :
            LET k == o[p].src
            IN  (k > 0 /\ ZIsBlockLine(k) /\ EMatch(lines[k]) /\ ZLayerOf(k) >= 1)
                    => IF ZBlockOf(k) % 2 = 1
                       THEN o[p].txt.e =
                                Fmt5(IF ZLayerOf(k) = 1 THEN MulE(lines[k].e, 15, 10)
                                     ELSE IF ZLayerOf(k) = ZLayers
                                     THEN MulE(lines[k].e, 5, 10)
                                     ELSE MulE(lines[k].e, zs.extrusion_multiplier, 1000))
                       ELSE o[p].txt = lines[k]

\* C28: in bricklayers_x1c, after the feature marker of a feature other than
\* inner or outer wall, extruding lines are not treated as internal perimeter
\* blocks (no 'G1 Z' line is inserted before them and their E value is kept)
\* until the next inner-wall marker
C28_OtherFeatureResets ==
    LET o == zs.modified_lines
    IN  zs.variant = "x1c"
            => \A p \in 1..Len(o) :
                   LET k == o[p].src
                   IN  (/\ k > 0
                        /\ IsExtrudeShape(lines[k])
                        /\ \E t \in 1..(k - 1) :
                               /\ ZStartedAt(t)
                               /\ lines[t].k \in {"foth", "flow"}
                               /\ \A u \in (t + 1)..(k - 1) : ~IsZMarker(lines[u]))
                           => /\ o[p].txt = lines[k]
                              /\ p > 1 => o[p - 1].src # 0

(* ------------------- claims on the layer of the splicer ---------------- *)
\* C31: the Splicer tracks the layer as the Extractor does: at every line
\* index at which it handles an internal-perimeter marker its current_layer
\* is the Extractor's current_layer at that line, also after earlier regions
\* were skipped, and a skip never passes over a layer marker without the
\* layer being updated
C31_SplicerLayerAsExtractor ==
    /\ (pc = "splice" /\ i <= Len(lines) /\ IsInternalMarker(lines[i]))
           => current_layer = LayerAt(i)
    /\ pc = "splice" => current_layer = LayerAt(i - 1)

(* ------------------- claims on the Z-shift output ---------------------- *)
\* a 'G1 Z' line of the output, copied or inserted, and its height in 1e-3 mm
IsZLine(entry) == entry.txt.k \in {"g1z", "zshift", "zreset"}
ZHeight(entry) == IF entry.txt.k = "g1z" THEN Fmt3(entry.txt.n) ELSE entry.txt.x

\* C32: in both Z-shift variants, whenever an extruding line that is not part
\* of an internal perimeter block is written to the output, the most recent
\* 'G1 Z' line of the output carries the layer height current_z, not
\* current_z + z_shift: the height is restored after a shifted block
C32_HeightRestored ==
    LET o == zs.modified_lines
    IN  \A p \in 1..Len(o) :
            LET k == o[p].src
            IN  (/\ k > 0
                 /\ ZStartedAt(k)
                 /\ IsExtrudeShape(lines[k])
                 /\ ZFeatureAt(k) # "internal")
                    => \A q \in 1..(p - 1) :
                           (IsZLine(o[q]) /\ \A r \in (q + 1)..(p - 1) : ~IsZLine(o[r]))
                               => ZHeight(o[q]) = Fmt3(ZCurrentZAt(k))


\* the output entries that come from an input line, in output order
ZFromInput == SelectSeq(zs.modified_lines, LAMBDA entry : entry.src > 0)

\* an output text is the input line itself or the line with its E rewritten
ZSameLine(txt, line) ==
    \/ txt = line
    \/ /\ EMatch(line)
       /\ txt.k \in {"efirst", "elast", "emult"}
       /\ txt.x = line.x /\ txt.y = line.y

\* C33: when a Z-shift variant has finished, its output holds every input
\* line exactly once and in the original order (a line of a shifted block with
\* its E rewritten), and the only other output lines are the inserted 'G1 Z'
\* lines, each directly in front of an extruding input line
C33_EveryLineOnce ==
    pc = "zdone" =>
        /\ Len(ZFromInput) = Len(lines)
        /\ \A k \in 1..Len(ZFromInput) :
               /\ ZFromInput[k].src = k
               /\ k <= Len(lines) => ZSameLine(ZFromInput[k].txt, lines[k])
        /\ \A p \in 1..Len(zs.modified_lines) :
               zs.modified_lines[p].src = 0 =>
                   /\ zs.modified_lines[p].txt.k \in {"zshift", "zreset"}
                   /\ p < Len(zs.modified_lines)
                   /\ zs.modified_lines[p + 1].src > 0
                   /\ IsExtrudeShape(lines[zs.modified_lines[p + 1].src])

====
